---- MODULE Spec2Model ----
(***************************************************************************)
(* A model of the bootstrap resampling package (src/bootstrap.go): the     *)
(* Sum, Average and Quantile aggregators, the quantile helper, and the     *)
(* BasicResampler and PresampledResampler with their Resample, Quantile    *)
(* and Reset methods.                                                      *)
(*                                                                         *)
(* float64 values are records [k, n, d]: a finite value is the exact       *)
(* rational n/d in lowest terms (the inputs are small integers, on which   *)
(* float64 addition and multiplication are exact), +Inf and -Inf are k =   *)
(* "inf" with the sign in n, and NaN is k = "nan".  The arithmetic follows *)
(* IEEE-754 on these: Inf * 0 = NaN, Inf + -Inf = NaN, NaN propagates and  *)
(* compares false with everything.                                         *)
(*                                                                         *)
(* rand.NewSource(0) is a deterministic source: its output is the sequence *)
(* stream, fixed in the initial state, and identical for every source      *)
(* seeded the same way.  int is 64 bits wide, so int(r.Int63()) is the     *)
(* draw itself and is never negative.                                      *)
(***************************************************************************)
EXTENDS Integers, Sequences, FiniteSets, TLC

\* ------------------------------------------------------------------ bounds

\* longest values sequence passed to Resample
MaxLen == 2
\* Resample calls allowed on one resampler between two Resets
MaxCalls == 2
\* number of outputs of the seeded source that the model can consume
StreamLen == 4
\* longest input of a direct Aggregate call
MaxAggLen == 2

\* ------------------------------------------------------------ float64 layer

RECURSIVE GCD(_, _)
GCD(a, b) == IF b = 0 THEN a ELSE GCD(b, a % b)

Abs(x) == IF x < 0 THEN -x ELSE x

Fin(n, d) ==
    LET g == GCD(Abs(n), d)
    IN  [k |-> "fin", n |-> n \div g, d |-> d \div g]

NaN == [k |-> "nan", n |-> 0, d |-> 1]
Inf == [k |-> "inf", n |-> 1, d |-> 1]
NegInf == [k |-> "inf", n |-> -1, d |-> 1]
Zero == Fin(0, 1)
One == Fin(1, 1)
Half == Fin(1, 2)

IsNaN(x) == x.k = "nan"

\* float64(i) for an int i
Float64(i) == Fin(i, 1)

Sign(x) == IF x.n > 0 THEN 1 ELSE IF x.n < 0 THEN -1 ELSE 0

\* a + b
FAdd(a, b) ==
    IF IsNaN(a) \/ IsNaN(b) THEN NaN
    ELSE IF a.k = "inf" /\ b.k = "inf" THEN (IF a.n = b.n THEN a ELSE NaN)
    ELSE IF a.k = "inf" THEN a
    ELSE IF b.k = "inf" THEN b
    ELSE Fin(a.n * b.d + b.n * a.d, a.d * b.d)

\* a * b
FMul(a, b) ==
    IF IsNaN(a) \/ IsNaN(b) THEN NaN
    ELSE IF a.k = "inf" \/ b.k = "inf"
         THEN (IF Sign(a) * Sign(b) = 0 THEN NaN
               ELSE IF Sign(a) * Sign(b) > 0 THEN Inf ELSE NegInf)
    ELSE Fin(a.n * b.n, a.d * b.d)

\* a / b for a finite b > 0 (the only divisor is float64(len(values)) > 0)
FDiv(a, b) ==
    IF IsNaN(a) THEN NaN
    ELSE IF a.k = "inf" THEN a
    ELSE Fin(a.n * b.d, a.d * b.n)

\* a < b
FLess(a, b) ==
    IF IsNaN(a) \/ IsNaN(b) THEN FALSE
    ELSE IF a.k = "inf" THEN (a.n < 0 /\ ~(b.k = "inf" /\ b.n < 0))
    ELSE IF b.k = "inf" THEN b.n > 0
    ELSE a.n * b.d < b.n * a.d

\* sort.Float64Slice.Less: NaN sorts before every other value
Less(a, b) == FLess(a, b) \/ (IsNaN(a) /\ ~IsNaN(b))

RECURSIVE Insert(_, _)
Insert(s, x) ==
    IF s = <<>> THEN <<x>>
    ELSE IF Less(x, Head(s)) THEN <<x>> \o s
    ELSE <<Head(s)>> \o Insert(Tail(s), x)

\* sort.Float64s(s): s in increasing order of Less
RECURSIVE SortFloat64s(_)
SortFloat64s(s) ==
    IF s = <<>> THEN <<>>
    ELSE Insert(SortFloat64s(Tail(s)), Head(s))

\* int(x) for a float64 x: truncation toward zero when x is finite; for NaN
\* and the infinities the result is implementation-dependent (amd64 yields
\* the most negative int, arm64 yields 0 for NaN and saturates otherwise):
\* -1 stands for a negative result, 0 for zero.
IntOf(x) ==
    IF x.k = "fin"
    THEN {IF x.n >= 0 THEN x.n \div x.d ELSE -((-x.n) \div x.d)}
    ELSE {-1, 0}

\* ------------------------------------------------------------ quantile

\* quantile(vals, q): the outcomes of the call.  read is the index of the
\* element read, or -1 when no element is read.
quantileNoGuard(vals, q) ==
    LET length == Len(vals)
    IN  { IF index >= 0 /\ index < length
          THEN [outcome |-> "ok", result |-> vals[index + 1], read |-> index]
          ELSE [outcome |-> "panic", result |-> NaN, read |-> -1]
          : index \in IntOf(FMul(q, Float64(length - 1))) }

quantileOffByOne(vals, q) ==
    LET length == Len(vals)
    IN  IF length = 0
        THEN {[outcome |-> "ok", result |-> NaN, read |-> -1]}
        ELSE { IF index >= 0 /\ index < length
               THEN [outcome |-> "ok", result |-> vals[index + 1], read |-> index]
               ELSE [outcome |-> "panic", result |-> NaN, read |-> -1]
               : index \in IntOf(FMul(q, Float64(length))) }

quantile(vals, q) ==
    LET length == Len(vals)
    IN  IF length = 0
        THEN {[outcome |-> "ok", result |-> NaN, read |-> -1]}
        ELSE { IF index >= 0 /\ index < length
               THEN [outcome |-> "ok", result |-> vals[index + 1], read |-> index]
               ELSE [outcome |-> "panic", result |-> NaN, read |-> -1]
               : index \in IntOf(FMul(q, Float64(length - 1))) }

\* ------------------------------------------------------------ aggregators

NewSumAggregator == [name |-> "Sum", quantile |-> Zero]
NewAverageAggregator == [name |-> "Average", quantile |-> Zero]
NewQuantileAggregator(q) == [name |-> "Quantile", quantile |-> q]

\* the loop `for _, v := range values { result += v }` from position i on
RECURSIVE SumLoop(_, _, _)
SumLoop(values, i, result) ==
    IF i > Len(values) THEN result
    ELSE SumLoop(values, i + 1, FAdd(result, values[i]))

\* SumAggregator.Aggregate
SumAggregate(values) == SumLoop(values, 1, Zero)

AverageNoGuard(values) ==
    IF Len(values) = 0 THEN NaN
    ELSE FDiv(SumLoop(values, 1, Zero), Float64(Len(values)))

\* AverageAggregator.Aggregate
AverageAggregate(values) ==
    IF Len(values) = 0 THEN Zero
    ELSE FDiv(SumLoop(values, 1, Zero), Float64(Len(values)))

\* QuantileAggregator.Aggregate: sorts values in place, then reads the
\* quantile.  The aggregator's quantile lies in [0,1] (AggQuantiles), so the
\* call has exactly one outcome.
QuantileAggregate(values, q) ==
    (CHOOSE o \in quantile(SortFloat64s(values), q) : TRUE).result

\* a.Aggregate(values): the value returned
Aggregate(a, values) ==
    CASE a.name = "Sum" -> SumAggregate(values)
      [] a.name = "Average" -> AverageAggregate(values)
      [] a.name = "Quantile" -> QuantileAggregate(values, a.quantile)

\* a.Aggregate(values): the contents of the caller's slice after the call
AggregateLeaves(a, values) ==
    IF a.name = "Quantile" THEN SortFloat64s(values) ELSE values

\* ------------------------------------------------------------------ state

VARIABLES
    built,       \* the resamplers that have been constructed
    stream,      \* the output sequence of rand.NewSource(0)
    input,       \* the values the paired resamplers are given (SpecPair)
    basic,       \* the BasicResampler: aggregator, iterations,
                 \*   sampleAggregates, r (the position in stream), and calls,
                 \*   the Resample calls since construction or the last Reset
    presampled,  \* the PresampledResampler: aggregator, iterations,
                 \*   sampleAggregates, samples, and calls
    numValues,   \* the numValues given to NewPresampledResampler
    op           \* the last call made and what it returned

vars == <<built, stream, input, basic, presampled, numValues, op>>

\* the values of a float64 slice element in the model
Vals == {Zero, One, Inf}
AggVals == {Zero, One, Fin(2, 1), Inf, NegInf}

SeqsUpTo(S, n) == UNION {[1..k -> S] : k \in 0..n}

\* the outputs of Int63 in the model: one of each parity (the source yields
\* 0 .. 2^63-1)
Draws == {0, 1}

\* the iteration counts given to the constructors
IterationCounts == {0, 1, 2}

\* the values sequences given to Resample
Inputs == SeqsUpTo(Vals, MaxLen)

\* TestSum and TestAverage aggregate 0, 1, 2, 3, 4
TestVector == <<Zero, One, Fin(2, 1), Fin(3, 1), Fin(4, 1)>>

\* the values sequences given to a direct Aggregate call
AggInputs == SeqsUpTo(AggVals, MaxAggLen) \cup {TestVector}

\* the q given to Quantile: inside [0,1], outside it, and NaN
QInputs == {Zero, Half, One, Fin(-1, 2), Fin(3, 2), NaN}

\* the quantiles of a QuantileAggregator called directly
AggQuantiles == {Zero, Half, One}

\* the quantiles of the QuantileAggregator a resampler is built with
ResamplerQuantiles == {Half}

\* the aggregators a resampler is built with
Aggregators ==
    {NewSumAggregator, NewAverageAggregator}
        \cup {NewQuantileAggregator(q) : q \in ResamplerQuantiles}

NoOp ==
    [name |-> "none", who |-> "none", values |-> <<>>, q |-> Zero,
     outcome |-> "ok", result |-> Zero, read |-> -1, appended |-> 0,
     after |-> <<>>]

\* ------------------------------------------------------------ constructors

NewBasicResampler(aggregator, iterations) ==
    [aggregator |-> aggregator, iterations |-> iterations,
     sampleAggregates |-> <<>>, r |-> 0, calls |-> 0]

\* the k-th output (k = 0, 1, ...) of the source, reduced modulo n as an int
DrawIndex(s, k, n) == s[k + 1] % n

\* the loop `for _ = range sampledInts { sampledInts[int(r.Int63())%numValues]++ }`
\* from its p-th round on; from is the number of outputs consumed before the row
RECURSIVE RowLoopSetsOne(_, _, _, _, _)
RowLoopSetsOne(sampledInts, p, from, s, nv) ==
    IF p >= nv THEN sampledInts
    ELSE RowLoopSetsOne(
            [sampledInts EXCEPT ![DrawIndex(s, from + p, nv) + 1] = 1],
            p + 1, from, s, nv)

RECURSIVE RowLoop(_, _, _, _, _)
RowLoop(sampledInts, p, from, s, nv) ==
    IF p >= nv THEN sampledInts
    ELSE RowLoop(
            [sampledInts EXCEPT ![DrawIndex(s, from + p, nv) + 1] = @ + 1],
            p + 1, from, s, nv)

NewPresampledResampler(aggregator, iterations, nv, s) ==
    [aggregator |-> aggregator, iterations |-> iterations,
     sampleAggregates |-> <<>>,
     samples |-> [i \in 1..iterations |->
                    RowLoop([j \in 1..nv |-> 0], 0, (i - 1) * nv, s, nv)],
     calls |-> 0]

\* the record of a resampler that was not constructed
NoBasic == NewBasicResampler(NewSumAggregator, 0)
NoPresampled == NewPresampledResampler(NewSumAggregator, 0, 0, <<>>)

\* ------------------------------------------------------------ Resample

\* BasicResampler.Resample, one iteration: scratch after the inner loop, which
\* consumes len(values) outputs of the source starting at output number from
BasicScratch(values, s, from) ==
    [p \in 1..Len(values) |->
        values[DrawIndex(s, from + p - 1, Len(values)) + 1]]

\* the statistics BasicResampler.Resample appends, in order
BasicAppended(r, values, s) ==
    [i \in 1..r.iterations |->
        Aggregate(r.aggregator,
                  BasicScratch(values, s, r.r + (i - 1) * Len(values)))]

\* PresampledResampler.Resample, iteration i: scratch after the inner loop
RECURSIVE Replicate(_, _, _)
Replicate(values, row, j) ==
    IF j > Len(values) THEN <<>>
    ELSE [x \in 1..row[j] |-> values[j]] \o Replicate(values, row, j + 1)

PresampledScratchReplicates(values, row) == Replicate(values, row, 1)

PresampledScratchIgnoresCount(values, row) ==
    [j \in 1..Len(values) |-> values[j]]

PresampledScratch(values, row) ==
    [j \in 1..Len(values) |-> FMul(values[j], Float64(row[j]))]

\* the statistics PresampledResampler.Resample appends, in order
PresampledAppended(r, values) ==
    [i \in 1..r.iterations |->
        Aggregate(r.aggregator, PresampledScratch(values, r.samples[i]))]

\* r.samples[i][j] is out of range for some j in range of values, in the
\* first iteration
PresampledFaults(r, values) ==
    r.iterations > 0 /\ Len(values) > Len(r.samples[1])

ResampleReplaces(aggregates, appended) == SortFloat64s(appended)

\* the collection after the appends and the closing sort.Float64s
ResampleInto(aggregates, appended) == SortFloat64s(aggregates \o appended)

BasicResample(values) ==
    /\ "basic" \in built
    /\ op.outcome = "ok"
    /\ basic.calls < MaxCalls
    /\ basic.r + basic.iterations * Len(values) <= StreamLen
    /\ LET appended == BasicAppended(basic, values, stream)
       IN  /\ basic' = [basic EXCEPT
                  !.sampleAggregates = ResampleInto(@, appended),
                  !.r = @ + basic.iterations * Len(values),
                  !.calls = @ + 1]
           /\ op' = [NoOp EXCEPT !.name = "Resample", !.who = "basic",
                                 !.values = values,
                                 !.appended = Len(appended)]
    /\ UNCHANGED <<built, stream, input, presampled, numValues>>

PresampledResample(values) ==
    /\ "presampled" \in built
    /\ op.outcome = "ok"
    /\ presampled.calls < MaxCalls
    /\ IF PresampledFaults(presampled, values)
       THEN /\ op' = [NoOp EXCEPT !.name = "Resample", !.who = "presampled",
                                  !.values = values, !.outcome = "panic"]
            /\ UNCHANGED presampled
       ELSE LET appended == PresampledAppended(presampled, values)
            IN  /\ presampled' = [presampled EXCEPT
                       !.sampleAggregates = ResampleInto(@, appended),
                       !.calls = @ + 1]
                /\ op' = [NoOp EXCEPT !.name = "Resample",
                                      !.who = "presampled",
                                      !.values = values,
                                      !.appended = Len(appended)]
    /\ UNCHANGED <<built, stream, input, basic, numValues>>

\* ------------------------------------------------------------ Quantile

BasicQuantile(q) ==
    /\ "basic" \in built
    /\ op.outcome = "ok"
    /\ \E o \in quantile(basic.sampleAggregates, q) :
          op' = [NoOp EXCEPT !.name = "Quantile", !.who = "basic", !.q = q,
                             !.outcome = o.outcome, !.result = o.result,
                             !.read = o.read]
    /\ UNCHANGED <<built, stream, input, basic, presampled, numValues>>

PresampledQuantile(q) ==
    /\ "presampled" \in built
    /\ op.outcome = "ok"
    /\ \E o \in quantile(presampled.sampleAggregates, q) :
          op' = [NoOp EXCEPT !.name = "Quantile", !.who = "presampled",
                             !.q = q, !.outcome = o.outcome,
                             !.result = o.result, !.read = o.read]
    /\ UNCHANGED <<built, stream, input, basic, presampled, numValues>>

\* ------------------------------------------------------------ Reset

BasicResetRestartsSource(r) ==
    [r EXCEPT !.sampleAggregates = <<>>, !.r = 0, !.calls = 0]

\* BasicResampler.Reset: r.sampleAggregates[:0]
BasicResetTo(r) == [r EXCEPT !.sampleAggregates = <<>>, !.calls = 0]

\* PresampledResampler.Reset: r.sampleAggregates[:0]
PresampledResetTo(r) == [r EXCEPT !.sampleAggregates = <<>>, !.calls = 0]

BasicReset ==
    /\ "basic" \in built
    /\ op.outcome = "ok"
    /\ basic' = BasicResetTo(basic)
    /\ op' = [NoOp EXCEPT !.name = "Reset", !.who = "basic"]
    /\ UNCHANGED <<built, stream, input, presampled, numValues>>

PresampledReset ==
    /\ "presampled" \in built
    /\ op.outcome = "ok"
    /\ presampled' = PresampledResetTo(presampled)
    /\ op' = [NoOp EXCEPT !.name = "Reset", !.who = "presampled"]
    /\ UNCHANGED <<built, stream, input, basic, numValues>>

\* ------------------------------------------------------------ Aggregate

SumCall(values) ==
    /\ op' = [NoOp EXCEPT !.name = "Aggregate", !.who = "Sum",
                          !.values = values,
                          !.result = SumAggregate(values),
                          !.after = AggregateLeaves(NewSumAggregator, values)]
    /\ UNCHANGED <<built, stream, input, basic, presampled, numValues>>

AverageCall(values) ==
    /\ op' = [NoOp EXCEPT !.name = "Aggregate", !.who = "Average",
                          !.values = values,
                          !.result = AverageAggregate(values),
                          !.after = AggregateLeaves(NewAverageAggregator, values)]
    /\ UNCHANGED <<built, stream, input, basic, presampled, numValues>>

QuantileCall(values, q) ==
    /\ op' = [NoOp EXCEPT !.name = "Aggregate", !.who = "Quantile",
                          !.values = values, !.q = q,
                          !.result = QuantileAggregate(values, q),
                          !.after = AggregateLeaves(NewQuantileAggregator(q), values)]
    /\ UNCHANGED <<built, stream, input, basic, presampled, numValues>>

\* ------------------------------------------------------------ specifications

Streams == [1..StreamLen -> Draws]

\* one resampler, constructed and then called in any order
Init ==
    /\ stream \in Streams
    /\ input = <<>>
    /\ op = NoOp
    /\ \E a \in Aggregators, it \in IterationCounts :
          \/ /\ built = {"basic"}
             /\ basic = NewBasicResampler(a, it)
             /\ presampled = NoPresampled
             /\ numValues = 0
          \/ \E nv \in 0..MaxLen :
                /\ it * nv <= StreamLen
                /\ built = {"presampled"}
                /\ basic = NoBasic
                /\ presampled = NewPresampledResampler(a, it, nv, stream)
                /\ numValues = nv

Next ==
    \/ \E values \in Inputs : BasicResample(values)
    \/ \E values \in Inputs : PresampledResample(values)
    \/ \E q \in QInputs : BasicQuantile(q)
    \/ \E q \in QInputs : PresampledQuantile(q)
    \/ BasicReset
    \/ PresampledReset

Spec == Init /\ [][Next]_vars

\* a BasicResampler and a PresampledResampler freshly constructed with the
\* same aggregator and iterations, both sources seeded alike, and given the
\* same values; neither is Reset
InitPair ==
    /\ stream \in Streams
    /\ input \in Inputs
    /\ op = NoOp
    /\ built = {"basic", "presampled"}
    /\ numValues = Len(input)
    /\ \E a \in Aggregators, it \in IterationCounts :
          /\ it * Len(input) <= StreamLen
          /\ basic = NewBasicResampler(a, it)
          /\ presampled = NewPresampledResampler(a, it, Len(input), stream)

NextPair ==
    \/ BasicResample(input)
    \/ PresampledResample(input)

SpecPair == InitPair /\ [][NextPair]_vars

\* direct calls of the aggregators
InitAgg ==
    /\ stream = <<>>
    /\ input = <<>>
    /\ op = NoOp
    /\ built = {}
    /\ basic = NoBasic
    /\ presampled = NoPresampled
    /\ numValues = 0

NextAgg ==
    \/ \E values \in AggInputs : SumCall(values)
    \/ \E values \in AggInputs : AverageCall(values)
    \/ \E values \in AggInputs, q \in AggQuantiles : QuantileCall(values, q)

SpecAgg == InitAgg /\ [][NextAgg]_vars

\* ------------------------------------------------------------------ claims

\* the resampler the last call was made on
Callee == IF op.who = "basic" THEN basic ELSE presampled

OnResampler == op.who \in {"basic", "presampled"}

\* s is in the increasing order sort.Float64s leaves: no element sorts
\* before an earlier one
IsSorted(s) == \A i, j \in 1..Len(s) : i < j => ~Less(s[j], s[i])

\* q is a number in [0,1]
InUnit(q) == q.k = "fin" /\ 0 <= q.n /\ q.n <= q.d

Count(s, x) == Cardinality({i \in 1..Len(s) : s[i] = x})

Range(s) == {s[i] : i \in 1..Len(s)}

RECURSIVE IntSum(_)
IntSum(row) == IF row = <<>> THEN 0 ELSE Head(row) + IntSum(Tail(row))

\* ((0 + s[1]) + s[2]) + ... + s[Len(s)]
RECURSIVE LeftSum(_)
LeftSum(s) ==
    IF s = <<>> THEN Zero
    ELSE FAdd(LeftSum(SubSeq(s, 1, Len(s) - 1)), s[Len(s)])

\* C1: on either resampler, Quantile(q) of an empty accumulation collection
\* returns NaN for every q and reads no element.
C1_EmptyQuantileIsNaN ==
    (op.name = "Quantile" /\ OnResampler /\ Len(Callee.sampleAggregates) = 0)
        => (op.outcome = "ok" /\ IsNaN(op.result) /\ op.read = -1)

\* Quantile(1) on a BasicResampler that was resampled and then Reset
C1_Witness ==
    /\ op.name = "Quantile" /\ op.who = "basic" /\ op.q = One
    /\ basic.r > 0 /\ basic.calls = 0
    /\ Len(basic.sampleAggregates) = 0
    /\ IsNaN(op.result)

\* C2: on either resampler, with n >= 1 entries and q in [0,1], Quantile(q)
\* returns the entry at index floor(q * (n-1)) of the collection, which is
\* sorted ascending; the index is within [0, n-1]; Quantile(0) is the smallest
\* entry and Quantile(1) the largest.
C2_QuantileIndex ==
    LET coll == Callee.sampleAggregates
        n == Len(coll)
    IN  (op.name = "Quantile" /\ OnResampler /\ n >= 1 /\ InUnit(op.q))
            => /\ op.outcome = "ok"
               /\ op.read \in 0..(n - 1)
               /\ op.read * op.q.d <= op.q.n * (n - 1)
               /\ op.q.n * (n - 1) < (op.read + 1) * op.q.d
               /\ IsSorted(coll)
               /\ op.result = coll[op.read + 1]
               /\ op.q = Zero => \A i \in 1..n : ~Less(coll[i], op.result)
               /\ op.q = One => \A i \in 1..n : ~Less(op.result, coll[i])

\* Quantile(1/2) of four entries, not all equal, reads index 1
C2_Witness ==
    /\ op.name = "Quantile" /\ OnResampler /\ op.q = Half
    /\ Len(Callee.sampleAggregates) = 4
    /\ op.read = 1
    /\ Less(Callee.sampleAggregates[1], Callee.sampleAggregates[4])

\* C3: SumAggregator.Aggregate returns the left-to-right sum of its input and
\* AverageAggregator.Aggregate that sum divided by the input's length; both
\* return 0 for the empty input, and neither changes its input.
C3_SumAndAverage ==
    (op.name = "Aggregate" /\ op.who \in {"Sum", "Average"})
        => /\ op.after = op.values
           /\ op.who = "Sum" => op.result = LeftSum(op.values)
           /\ (op.who = "Average" /\ op.values # <<>>)
                => op.result = FDiv(LeftSum(op.values), Float64(Len(op.values)))
           /\ op.values = <<>> => op.result = Zero
           /\ (op.who = "Sum" /\ op.values = TestVector) => op.result = Fin(10, 1)
           /\ (op.who = "Average" /\ op.values = TestVector) => op.result = Fin(2, 1)

\* Average.Aggregate(0, 1, 2, 3, 4) = 2
C3_Witness ==
    /\ op.name = "Aggregate" /\ op.who = "Average"
    /\ op.values = TestVector
    /\ op.result = Fin(2, 1)

\* C4, in every state: the collection of each resampler is sorted ascending
\* and holds iterations times the number of Resample calls since construction
\* or the last Reset.
C4_State ==
    /\ "basic" \in built =>
          /\ IsSorted(basic.sampleAggregates)
          /\ Len(basic.sampleAggregates) = basic.iterations * basic.calls
    /\ "presampled" \in built =>
          /\ IsSorted(presampled.sampleAggregates)
          /\ Len(presampled.sampleAggregates)
                = presampled.iterations * presampled.calls

\* C4, in every Resample that returns: the entries held before the call are
\* kept, and iterations entries are added.
C4_Step ==
    (op'.name = "Resample" /\ op'.outcome = "ok")
        => LET before == IF op'.who = "basic" THEN basic.sampleAggregates
                         ELSE presampled.sampleAggregates
               after == Callee'.sampleAggregates
           IN  /\ Len(after) = Len(before) + Callee'.iterations
               /\ \A x \in Range(before) : Count(after, x) >= Count(before, x)

\* C4: after every Resample call the accumulation collection is sorted
\* ascending and its size is iterations times the number of Resample calls
\* since construction or the last Reset; earlier entries are kept.
C4_Accumulates == []C4_State /\ [][C4_Step]_vars

\* a second Resample without a Reset, two iterations each: four entries, not
\* all equal
C4_Witness ==
    /\ op.name = "Resample" /\ op.outcome = "ok" /\ OnResampler
    /\ Callee.calls = 2 /\ Callee.iterations = 2
    /\ Len(Callee.sampleAggregates) = 4
    /\ Less(Callee.sampleAggregates[1], Callee.sampleAggregates[4])

\* C5, in every state: the table has iterations rows of numValues counts, none
\* negative, and every row sums to numValues.
C5_State ==
    "presampled" \in built =>
        /\ Len(presampled.samples) = presampled.iterations
        /\ \A i \in 1..Len(presampled.samples) :
              /\ Len(presampled.samples[i]) = numValues
              /\ \A j \in 1..numValues : presampled.samples[i][j] >= 0
              /\ IntSum(presampled.samples[i]) = numValues

\* C5: the count table of a PresampledResampler has exactly iterations rows of
\* numValues non-negative counts, every row sums to numValues, and no call
\* changes the table.
C5_Table == []C5_State /\ [][presampled'.samples = presampled.samples]_vars

\* a table with a column drawn twice, after a Resample and a Reset
C5_Witness ==
    /\ "presampled" \in built
    /\ op.name = "Reset"
    /\ presampled.iterations = 2 /\ numValues = 2
    /\ presampled.samples[1] = <<2, 0>>
    /\ presampled.samples[2] = <<1, 1>>

\* both resamplers of the pair have made exactly one Resample call, with a
\* Sum or Average aggregator
PairResampledLinear ==
    /\ built = {"basic", "presampled"}
    /\ basic.calls = 1 /\ presampled.calls = 1
    /\ basic.aggregator.name \in {"Sum", "Average"}

\* C6 as stated: for the Sum and Average aggregators and every values
\* sequence, a fresh PresampledResampler and a fresh BasicResampler on the
\* same draws hold identical collections after one Resample(values).
C6_AsStated ==
    PairResampledLinear
        => basic.sampleAggregates = presampled.sampleAggregates

\* C6, amended: the same, for values sequences of finite numbers.
C6_LinearEquivalence ==
    (PairResampledLinear /\ \A i \in 1..Len(input) : input[i].k = "fin")
        => /\ basic.sampleAggregates = presampled.sampleAggregates
           /\ \A q \in QInputs :
                 quantile(basic.sampleAggregates, q)
                    = quantile(presampled.sampleAggregates, q)

\* Sum over (0, 1) with two iterations whose draws differ
C6_Witness ==
    /\ PairResampledLinear
    /\ basic.aggregator.name = "Sum"
    /\ input = <<Zero, One>>
    /\ basic.iterations = 2
    /\ Less(basic.sampleAggregates[1], basic.sampleAggregates[2])

\* C7 as stated: BasicResampler.Resample of an empty values sequence is
\* rejected: it does not fault and it appends no statistic.
C7_EmptyRejected ==
    (op.name = "Resample" /\ op.who = "basic" /\ op.values = <<>>)
        => (op.outcome # "panic" /\ op.appended = 0)

\* C8 as stated: PresampledResampler.Resample of a values sequence whose
\* length differs from numValues is rejected before anything is appended: it
\* appends no statistic and does not fault.
C8_LengthRejected ==
    (op.name = "Resample" /\ op.who = "presampled"
        /\ Len(op.values) # numValues)
        => (op.outcome # "panic" /\ op.appended = 0)

\* C9, in every Reset: the collection becomes empty; the aggregator, the
\* iteration count, the position of the source and the table are unchanged.
C9_Step ==
    op'.name = "Reset"
        => /\ Callee'.sampleAggregates = <<>>
           /\ basic'.aggregator = basic.aggregator
           /\ basic'.iterations = basic.iterations
           /\ basic'.r = basic.r
           /\ presampled'.aggregator = presampled.aggregator
           /\ presampled'.iterations = presampled.iterations
           /\ presampled'.samples = presampled.samples
           /\ stream' = stream

\* C9, after the first Resample(values) since construction or a Reset: a
\* PresampledResampler holds what a freshly constructed one holds after
\* Resample(values); a BasicResampler holds the statistics of the draws that
\* end at the source's position.
C9_State ==
    (op.name = "Resample" /\ op.outcome = "ok" /\ OnResampler
        /\ Callee.calls = 1)
        => IF op.who = "presampled"
           THEN presampled.sampleAggregates
                  = SortFloat64s(PresampledAppended(
                        NewPresampledResampler(presampled.aggregator,
                            presampled.iterations, numValues, stream),
                        op.values))
           ELSE basic.sampleAggregates
                  = SortFloat64s(BasicAppended(
                        [basic EXCEPT
                            !.r = @ - basic.iterations * Len(op.values)],
                        op.values, stream))

\* C9: Reset empties the accumulation collection and changes nothing else;
\* Resample, Reset, Resample on a BasicResampler continues the draw sequence,
\* on a PresampledResampler it reproduces the first collection.
C9_ResetFrame == []C9_State /\ [][C9_Step]_vars

\* a BasicResampler resampled again after a Reset, holding a collection that
\* the draws from the start of the sequence would not give
C9_Witness ==
    /\ op.name = "Resample" /\ op.who = "basic" /\ basic.calls = 1
    /\ basic.r > basic.iterations * Len(op.values)
    /\ basic.sampleAggregates
          # SortFloat64s(BasicAppended([basic EXCEPT !.r = 0],
                                       op.values, stream))

\* the pair is built with Quantile(1/2) and one iteration over (0, 1), and
\* both draws of the iteration select index 1
C10_Case ==
    /\ built = {"basic", "presampled"}
    /\ basic.aggregator = NewQuantileAggregator(Half)
    /\ basic.iterations = 1
    /\ input = <<Zero, One>>
    /\ DrawIndex(stream, 0, 2) = 1 /\ DrawIndex(stream, 1, 2) = 1
    /\ basic.calls = 1 /\ presampled.calls = 1

\* C10: for the Quantile aggregator there are values, draws and a quantile
\* for which the statistic PresampledResampler.Resample appends differs from
\* the one BasicResampler.Resample appends: Quantile(1/2) over (0, 1) with
\* both draws selecting index 1 gives 1 on the BasicResampler and 0 on the
\* PresampledResampler.
C10_QuantileDiffers ==
    C10_Case
        => /\ basic.sampleAggregates = <<One>>
           /\ presampled.sampleAggregates = <<Zero>>

C10_Witness ==
    /\ C10_Case
    /\ basic.sampleAggregates # presampled.sampleAggregates

====
